---- MODULE Spec2Model ----
(***************************************************************************)
(* Model of mqttrs src/utils.rs: the Error type and its conversions to and *)
(* from std::io::Error, the packet identifier Pid (a NonZeroU16 with       *)
(* wraparound arithmetic and a 2-byte big-endian wire form), QoS and       *)
(* QosPid.                                                                 *)
(*                                                                         *)
(* Values: a Result is <<"Ok", v>> or <<"Err", e>>; an Option is           *)
(* <<"Some", v>> or <<"None">>; an Error is a tuple headed by its variant  *)
(* name; a Pid is the u16 it wraps.                                        *)
(***************************************************************************)
EXTENDS Integers, Sequences, FiniteSets, TLC

VARIABLES
    pid,       \* the Pid value the caller currently holds
    prev,      \* the Pid the last + or - was applied to (else the Pid itself)
    op,        \* the last Pid operation: "new", "try_from", "add", "sub"
    arg,       \* its u16 argument
    fault,     \* "none", or the panic a Pid operation ended in
    buf,       \* the BytesMut: [data, cap, inline]
    bprev,     \* the BytesMut before the last buffer operation
    bop,       \* the last buffer operation: "init", "to_buffer", "from_buffer"
    barg,      \* the Pid handed to the last to_buffer
    ret,       \* what the last buffer operation returned
    panicked,  \* the last buffer operation panicked instead of returning
    fresh,     \* the buffer was empty when the run began
    written,   \* the Pids written by to_buffer, in order
    reads,     \* the results returned by from_buffer, in order
    call       \* the last call of a pure function: [fn, arg, ret]

pidVars == <<pid, prev, op, arg, fault>>
bufVars == <<buf, bprev, bop, barg, ret, panicked, fresh, written, reads>>
vars == <<pid, prev, op, arg, fault,
          buf, bprev, bop, barg, ret, panicked, fresh, written, reads, call>>

(***************************************************************************)
(* Bounds of the model.                                                    *)
(***************************************************************************)
\* deltas 0..MaxDelta and U16Max-MaxDelta..U16Max are tried in + and -
MaxDelta == 2
\* capacity of the BytesMut
MaxCap == 4
\* number of to_buffer calls in one run
MaxWrites == 2
\* length of a message text, in tokens
MaxMsg == 2

(***************************************************************************)
(* u16 and Result / Option                                                 *)
(***************************************************************************)
U16Max == 65535
U16Mod == U16Max + 1
Byte == 0..255

Ok(v) == <<"Ok", v>>
Err(e) == <<"Err", e>>
IsOk(r) == r[1] = "Ok"
IsErr(r) == r[1] = "Err"
Some(v) == <<"Some", v>>
None == <<"None">>
Unit == <<>>

\* the sequences over S of length at most n
RECURSIVE SeqsUpTo(_, _)
SeqsUpTo(S, n) ==
    IF n = 0 THEN {<<>>}
    ELSE LET shorter == SeqsUpTo(S, n - 1)
         IN  shorter \cup {Append(q, x) : q \in shorter, x \in S}

\* Error variants used by the Pid and QoS code
WriteZero == <<"WriteZero">>
InvalidPid == <<"InvalidPid">>
InvalidQos(n) == <<"InvalidQos", n>>

(***************************************************************************)
(* Pid                                                                     *)
(***************************************************************************)
\* u16::overflowing_add / overflowing_sub: the wrapped value and the flag
overflowing_add(a, b) == [n |-> (a + b) % U16Mod, o |-> a + b > U16Max]
overflowing_sub(a, b) == [n |-> (a - b) % U16Mod, o |-> a < b]

\* NonZeroU16::new(n).unwrap(): the value, or the panic on None
NonZeroUnwrap(n, f) ==
    IF f # "none" THEN [n |-> n, fault |-> f]
    ELSE IF n = 0 THEN [n |-> n, fault |-> "unwrap_none"]
    ELSE [n |-> n, fault |-> "none"]

\* Pid::new
PidNew == 1

\* Pid::try_from
PidTryFrom(u) == IF u # 0 THEN Ok(u) ELSE Err(InvalidPid)

\* Pid::get
PidGet(p) == p

\* a bug: the overflow arm forgets to step over zero
PidAddNoSkip(self, u) ==
    LET r == overflowing_add(PidGet(self), u)
    IN  NonZeroUnwrap(r.n, "none")

\* impl Add<u16> for Pid: [n, fault]; n + 1 is a checked u16 addition
PidAdd(self, u) ==
    LET r == overflowing_add(PidGet(self), u)
    IN  IF ~r.o THEN NonZeroUnwrap(r.n, "none")
        ELSE IF r.n + 1 > U16Max
             THEN NonZeroUnwrap((r.n + 1) % U16Mod, "overflow")
             ELSE NonZeroUnwrap(r.n + 1, "none")

\* a bug: the overflow arm forgets the extra decrement
PidSubNoSkip(self, u) ==
    LET r == overflowing_sub(PidGet(self), u)
    IN  IF r.n = 0 THEN NonZeroUnwrap(U16Max, "none")
        ELSE NonZeroUnwrap(r.n, "none")

\* impl Sub<u16> for Pid: [n, fault]; n - 1 is a checked u16 subtraction
PidSub(self, u) ==
    LET r == overflowing_sub(PidGet(self), u)
    IN  IF r.n = 0 THEN NonZeroUnwrap(U16Max, "none")
        ELSE IF ~r.o THEN NonZeroUnwrap(r.n, "none")
        ELSE IF r.n - 1 < 0
             THEN NonZeroUnwrap((r.n - 1) % U16Mod, "overflow")
             ELSE NonZeroUnwrap(r.n - 1, "none")

\* the deltas and the raw integers the Pid steps are tried with
Deltas == (0..MaxDelta) \cup ((U16Max - MaxDelta)..U16Max)
              \cup {U16Max \div 2 + 1}
Seeds == {0, 1, 2, 10, 100, U16Max \div 2, U16Max - 1, U16Max}

InitPid ==
    /\ pid = PidNew
    /\ prev = PidNew
    /\ op = "new"
    /\ arg = 0
    /\ fault = "none"

New ==
    /\ fault = "none"
    /\ pid' = PidNew
    /\ prev' = PidNew
    /\ op' = "new"
    /\ arg' = 0
    /\ UNCHANGED fault

\* let pid = Pid::try_from(n)?  -- the caller keeps its Pid on Err
TryFrom ==
    \E n \in Seeds :
        /\ fault = "none"
        /\ pid' = IF IsOk(PidTryFrom(n)) THEN PidTryFrom(n)[2] ELSE pid
        /\ prev' = pid'
        /\ op' = "try_from"
        /\ arg' = n
        /\ UNCHANGED fault

\* pid = pid + d
Add ==
    \E d \in Deltas :
        LET r == PidAdd(pid, d)
        IN  /\ fault = "none"
            /\ fault' = r.fault
            /\ pid' = IF r.fault = "none" THEN r.n ELSE pid
            /\ prev' = pid
            /\ op' = "add"
            /\ arg' = d

\* pid = pid - d
Sub ==
    \E d \in Deltas :
        LET r == PidSub(pid, d)
        IN  /\ fault = "none"
            /\ fault' = r.fault
            /\ pid' = IF r.fault = "none" THEN r.n ELSE pid
            /\ prev' = pid
            /\ op' = "sub"
            /\ arg' = d

(***************************************************************************)
(* BytesMut (bytes 0.4, the version that has IntoBuf and put_u16_be) as    *)
(* Pid::from_buffer and Pid::to_buffer use it.  A buffer is                *)
(* [data, cap, inline]: its bytes, what capacity() reports, and whether    *)
(* the bytes are stored inline in the handle (capacity InlineCap always)   *)
(* or on the heap (splitting bytes off the front gives up their capacity). *)
(***************************************************************************)
InlineCap == 4 * 8 - 1

\* BufMut::remaining_mut
remaining_mut(b) == b.cap - Len(b.data)

\* a bug: the two bytes are written low byte first
put_u16_le(b, n) ==
    IF remaining_mut(b) < 2
    THEN [buf |-> b, panic |-> TRUE]
    ELSE [buf |-> [b EXCEPT !.data = @ \o <<n % 256, n \div 256>>],
          panic |-> FALSE]

\* BufMut::put_u16_be -> put_slice: asserts remaining_mut() >= 2, then
\* appends the high byte and the low byte
put_u16_be(b, n) ==
    IF remaining_mut(b) < 2
    THEN [buf |-> b, panic |-> TRUE]
    ELSE [buf |-> [b EXCEPT !.data = @ \o <<n \div 256, n % 256>>],
          panic |-> FALSE]

\* BytesMut::split_to(at): asserts at <= len(), returns the first at bytes
\* and leaves the rest in the buffer
split_to(b, at) ==
    IF at > Len(b.data)
    THEN [head |-> <<>>, buf |-> b, panic |-> TRUE]
    ELSE [head |-> SubSeq(b.data, 1, at),
          buf |-> [data |-> SubSeq(b.data, at + 1, Len(b.data)),
                   cap |-> IF b.inline THEN b.cap ELSE b.cap - at,
                   inline |-> b.inline],
          panic |-> FALSE]

\* a bug: the two bytes are read low byte first
get_u16_le(bytes) == bytes[1] + 256 * bytes[2]

\* Buf::get_u16_be on the two bytes split off
get_u16_be(bytes) == 256 * bytes[1] + bytes[2]

\* Pid::from_buffer: [ret, buf, panic]
PidFromBuffer(b) ==
    LET s == split_to(b, 2)
    IN  IF s.panic
        THEN [ret |-> <<"Panic", "split_to">>, buf |-> b, panic |-> TRUE]
        ELSE [ret |-> PidTryFrom(get_u16_be(s.head)), buf |-> s.buf,
              panic |-> FALSE]

\* Pid::to_buffer: [ret, buf, panic]; every return is Ok(())
PidToBuffer(self, b) ==
    LET w == put_u16_be(b, PidGet(self))
    IN  IF w.panic
        THEN [ret |-> <<"Panic", "put_slice">>, buf |-> b, panic |-> TRUE]
        ELSE [ret |-> Ok(Unit), buf |-> w.buf, panic |-> FALSE]

\* the bytes a buffer may hold when the run begins, and the Pids written
ByteSamples == {0, 1, 255}
PidSamples == {1, 256, U16Max}

\* a caller-owned buffer: heap storage of capacity 0..MaxCap, or inline
InitBuf ==
    /\ \E inl \in BOOLEAN :
       \E c \in IF inl THEN {InlineCap} ELSE 0..MaxCap :
       \E d \in SeqsUpTo(ByteSamples, IF inl THEN MaxCap ELSE c) :
            /\ buf = [data |-> d, cap |-> c, inline |-> inl]
            /\ fresh = (d = <<>>)
    /\ bprev = buf
    /\ bop = "init"
    /\ barg = PidNew
    /\ ret = Ok(Unit)
    /\ panicked = FALSE
    /\ written = <<>>
    /\ reads = <<>>

\* pid.to_buffer(&mut buf)
ToBuffer ==
    \E p \in PidSamples :
        LET r == PidToBuffer(p, buf)
        IN  /\ ~panicked
            /\ Len(written) < MaxWrites
            /\ bprev' = buf
            /\ bop' = "to_buffer"
            /\ barg' = p
            /\ buf' = r.buf
            /\ ret' = r.ret
            /\ panicked' = r.panic
            /\ written' = IF r.panic THEN written ELSE Append(written, p)
            /\ UNCHANGED <<fresh, reads>>

\* Pid::from_buffer(&mut buf)
FromBuffer ==
    LET r == PidFromBuffer(buf)
    IN  /\ ~panicked
        /\ bprev' = buf
        /\ bop' = "from_buffer"
        /\ buf' = r.buf
        /\ ret' = r.ret
        /\ panicked' = r.panic
        /\ reads' = IF r.panic THEN reads ELSE Append(reads, r.ret)
        /\ UNCHANGED <<fresh, written, barg>>

IdlePid == InitPid

NextBuf ==
    \/ ToBuffer /\ UNCHANGED <<pidVars, call>>
    \/ FromBuffer /\ UNCHANGED <<pidVars, call>>

(***************************************************************************)
(* QoS and QosPid                                                          *)
(***************************************************************************)
QoS == {"AtMostOnce", "AtLeastOnce", "ExactlyOnce"}

\* QoS::to_u8
QoS_to_u8(q) ==
    CASE q = "AtMostOnce" -> 0
      [] q = "AtLeastOnce" -> 1
      [] q = "ExactlyOnce" -> 2

\* a bug: the catch-all arm starts one byte late
QoS_from_u8_lax(byte) ==
    CASE byte = 0 -> Ok("AtMostOnce")
      [] byte = 1 -> Ok("AtLeastOnce")
      [] byte \in {2, 3} -> Ok("ExactlyOnce")
      [] OTHER -> Err(InvalidQos(byte))

\* QoS::from_u8
QoS_from_u8(byte) ==
    CASE byte = 0 -> Ok("AtMostOnce")
      [] byte = 1 -> Ok("AtLeastOnce")
      [] byte = 2 -> Ok("ExactlyOnce")
      [] OTHER -> Err(InvalidQos(byte))

\* enum QosPid: the three shapes
QosPid ==
    {<<"AtMostOnce">>}
        \cup {<<"AtLeastOnce", p>> : p \in PidSamples}
        \cup {<<"ExactlyOnce", p>> : p \in PidSamples}

\* a bug: the ExactlyOnce arm loses its Pid
QosPid_pid_lossy(self) ==
    CASE self[1] = "AtMostOnce" -> None
      [] self[1] = "AtLeastOnce" -> Some(self[2])
      [] self[1] = "ExactlyOnce" -> None

\* QosPid::pid
QosPid_pid(self) ==
    CASE self[1] = "AtMostOnce" -> None
      [] self[1] = "AtLeastOnce" -> Some(self[2])
      [] self[1] = "ExactlyOnce" -> Some(self[2])

\* QosPid::qos
QosPid_qos(self) ==
    CASE self[1] = "AtMostOnce" -> "AtMostOnce"
      [] self[1] = "AtLeastOnce" -> "AtLeastOnce"
      [] self[1] = "ExactlyOnce" -> "ExactlyOnce"

(***************************************************************************)
(* Error and std::io::Error.  Text is a sequence of tokens; an io::Error   *)
(* is [kind, msg, inner]: its ErrorKind, what its Display prints, and the  *)
(* Error boxed inside it (<<"none">> for an error of the I/O layer).       *)
(***************************************************************************)
ErrorKind == {"WriteZero", "InvalidData", "UnexpectedEof", "Other"}

\* tokens of message text; the quote and the backslash are what Debug escapes
MsgTokens == {"eof", "\"", "\\"}
Msgs == SeqsUpTo(MsgTokens, MaxMsg)

\* <str as Debug>::fmt: quoted, with quote and backslash escaped
DebugChar(t) ==
    CASE t = "\"" -> "\\\""
      [] t = "\\" -> "\\\\"
      [] OTHER -> t
DebugStr(m) == <<"\"">> \o [i \in 1..Len(m) |-> DebugChar(m[i])] \o <<"\"">>

\* #[derive(Debug)] for Error
ErrorDebug(e) ==
    CASE e[1] \in {"WriteZero", "InvalidPid", "InvalidHeader", "InvalidLength"} ->
            <<e[1]>>
      [] e[1] \in {"InvalidQos", "InvalidConnectReturnCode"} ->
            <<e[1], "(", ToString(e[2]), ")">>
      [] e[1] = "InvalidProtocol" ->
            <<e[1], "(">> \o DebugStr(e[2]) \o <<", ", ToString(e[3]), ")">>
      [] e[1] = "InvalidString" ->
            <<e[1], "(", "Utf8Error { valid_up_to: ", ToString(e[2][2]), " }", ")">>
      [] e[1] = "IoError" ->
            <<e[1], "(", e[2], ", ">> \o DebugStr(e[3]) \o <<")">>

\* impl fmt::Display for Error: write!(f, "{:?}", self)
ErrorDisplay(e) == ErrorDebug(e)

\* a bug: the WriteZero arm is missing
IoError_from_Error_flat(err) ==
    [kind |-> "InvalidData", msg |-> ErrorDisplay(err), inner |-> err]

\* impl From<Error> for IoError
IoError_from_Error(err) ==
    IF err = WriteZero
    THEN [kind |-> "WriteZero", msg |-> ErrorDisplay(err), inner |-> err]
    ELSE [kind |-> "InvalidData", msg |-> ErrorDisplay(err), inner |-> err]

\* impl From<IoError> for Error
Error_from_IoError(err) ==
    IF err.kind = "WriteZero"
    THEN WriteZero
    ELSE <<"IoError", err.kind, err.msg>>

\* the Error values and the I/O errors the conversions are tried with
ErrorSamples ==
    {WriteZero, InvalidPid, <<"InvalidHeader">>, <<"InvalidLength">>}
        \cup {InvalidQos(b) : b \in {3, 255}}
        \cup {<<"InvalidConnectReturnCode", b>> : b \in {6, 255}}
        \cup {<<"InvalidProtocol", m, b>> : m \in Msgs, b \in {0, 4}}
        \cup {<<"InvalidString", <<"Utf8Error", n>>>> : n \in {0, 1}}
        \cup {<<"IoError", k, m>> : k \in ErrorKind, m \in Msgs}
IoSamples ==
    {[kind |-> k, msg |-> m, inner |-> <<"none">>] : k \in ErrorKind, m \in Msgs}
        \cup {IoError_from_Error(e) : e \in ErrorSamples}

InitCall == call = [fn |-> "none", arg |-> 0, ret |-> 0]

FromU8 ==
    \E b \in Byte :
        call' = [fn |-> "from_u8", arg |-> b, ret |-> QoS_from_u8(b)]

ToU8 ==
    \E q \in QoS :
        call' = [fn |-> "to_u8", arg |-> q, ret |-> QoS_to_u8(q)]

QosPidPid ==
    \E q \in QosPid :
        call' = [fn |-> "pid", arg |-> q, ret |-> QosPid_pid(q)]

QosPidQos ==
    \E q \in QosPid :
        call' = [fn |-> "qos", arg |-> q, ret |-> QosPid_qos(q)]

ErrorToIo ==
    \E e \in ErrorSamples :
        call' = [fn |-> "io_from_error", arg |-> e, ret |-> IoError_from_Error(e)]

IoToError ==
    \E io \in IoSamples :
        call' = [fn |-> "error_from_io", arg |-> io, ret |-> Error_from_IoError(io)]

NextVal ==
    \/ FromU8 /\ UNCHANGED <<pidVars, bufVars>>
    \/ ToU8 /\ UNCHANGED <<pidVars, bufVars>>
    \/ QosPidPid /\ UNCHANGED <<pidVars, bufVars>>
    \/ QosPidQos /\ UNCHANGED <<pidVars, bufVars>>
    \/ ErrorToIo /\ UNCHANGED <<pidVars, bufVars>>
    \/ IoToError /\ UNCHANGED <<pidVars, bufVars>>

IdleBuf ==
    /\ buf = [data |-> <<>>, cap |-> 0, inline |-> FALSE]
    /\ bprev = buf
    /\ bop = "init"
    /\ barg = PidNew
    /\ ret = Ok(Unit)
    /\ panicked = FALSE
    /\ fresh = TRUE
    /\ written = <<>>
    /\ reads = <<>>

IdleCall == InitCall

NextPid ==
    \/ New /\ UNCHANGED <<bufVars, call>>
    \/ TryFrom /\ UNCHANGED <<bufVars, call>>
    \/ Add /\ UNCHANGED <<bufVars, call>>
    \/ Sub /\ UNCHANGED <<bufVars, call>>

StartPid == InitPid /\ IdleBuf /\ IdleCall
SpecPid == StartPid /\ [][NextPid]_vars

StartBuf == InitBuf /\ IdlePid /\ IdleCall
SpecBuf == StartBuf /\ [][NextBuf]_vars

StartVal == InitCall /\ IdlePid /\ IdleBuf
SpecVal == StartVal /\ [][NextVal]_vars

(***************************************************************************)
(* Claims about Pid arithmetic                                             *)
(***************************************************************************)
\* the ring {1..U16Max}: position p moved by k places (k may be negative)
RingMove(p, k) == ((p - 1 + k) % U16Max) + 1

\* C1: no Pid ever holds 0: from Pid::new() or a successful try_from, after
\* any sequence of + d and - d the value get() returns is in 1..65535, and
\* no step panics on the unwrap or overflows in its n + 1 / n - 1.
C1_NeverZero ==
    /\ fault = "none"
    /\ PidGet(pid) \in 1..U16Max
    /\ PidGet(prev) \in 1..U16Max

\* an addition has wrapped from 65535 over the skipped zero to 1
C1_Witness ==
    /\ op = "add"
    /\ prev = U16Max
    /\ arg = 1
    /\ pid = 1
    /\ fault = "none"

\* C2: round-trip law: for every cur in 1..65535 and d in 0..65535,
\* (Pid(cur) + d) - d = Pid(cur) and (Pid(cur) - d) + d = Pid(cur), and
\* neither the intermediate nor the final result is 0.
C2_RoundTrip ==
    /\ op = "add" =>
          /\ PidGet(pid) # 0
          /\ PidSub(pid, arg) = [n |-> PidGet(prev), fault |-> "none"]
    /\ op = "sub" =>
          /\ PidGet(pid) # 0
          /\ PidAdd(pid, arg) = [n |-> PidGet(prev), fault |-> "none"]

\* a subtraction that wrapped below 1, whose inverse addition wraps back
C2_Witness ==
    /\ op = "sub"
    /\ prev = 2
    /\ arg = U16Max - 1
    /\ pid = 3
    /\ PidAdd(pid, arg).n = 2

\* C3: Pid arithmetic is modular arithmetic on the ring of the 65535 values
\* 1..65535: (Pid(cur) + d).get() = ((cur - 1 + d) mod 65535) + 1 and
\* (Pid(cur) - d).get() = ((cur - 1 - d) mod 65535) + 1; so 65535 + 1 = 1,
\* 1 - 1 = 65535, 65535 + 2 = 2, 1 - 2 = 65534, and d = 0 and d = 65535
\* leave the Pid unchanged.
C3_Modular ==
    /\ op = "add" => PidGet(pid) = RingMove(PidGet(prev), arg)
    /\ op = "sub" => PidGet(pid) = RingMove(PidGet(prev), 0 - arg)
    /\ (op \in {"add", "sub"} /\ arg \in {0, U16Max}) => pid = prev

\* 1 - 2 has landed on 65534
C3_Witness ==
    /\ op = "sub"
    /\ prev = 1
    /\ arg = 2
    /\ pid = U16Max - 1
(***************************************************************************)
(* Claims about the wire form of Pid                                       *)
(***************************************************************************)
\* the big-endian bytes of a u16
HighByte(n) == n \div 256
LowByte(n) == n % 256

\* C4: to_buffer on a buffer with fewer than 2 bytes of spare capacity
\* returns Err(WriteZero), does not grow the buffer and does not panic;
\* with at least 2 bytes spare it appends the 2 big-endian bytes of the
\* value and returns Ok(()).
C4_ToBufferWriteZero ==
    bop = "to_buffer" =>
        IF bprev.cap - Len(bprev.data) < 2
        THEN /\ ~panicked
             /\ ret = Err(WriteZero)
             /\ buf = bprev
        ELSE /\ ~panicked
             /\ ret = Ok(Unit)
             /\ buf.data = bprev.data \o <<HighByte(barg), LowByte(barg)>>
             /\ buf.cap = bprev.cap

\* C5: from_buffer on a buffer holding 0 or 1 byte reports the underrun as
\* a returned Err (WriteZero or IoError); it never panics.
C5_FromBufferUnderrun ==
    (bop = "from_buffer" /\ Len(bprev.data) < 2) =>
        /\ ~panicked
        /\ IsErr(ret)
        /\ ret[2][1] \in {"WriteZero", "IoError"}

\* C6: from_buffer on a buffer with at least 2 bytes removes exactly the
\* first two bytes b0, b1 (the later bytes stay, in order) and returns
\* Err(InvalidPid) iff b0 = b1 = 0, otherwise Ok(p) with p.get() =
\* 256*b0 + b1; the two bytes are consumed in both cases.
C6_FromBufferDecodes ==
    (bop = "from_buffer" /\ Len(bprev.data) >= 2) =>
        LET b0 == bprev.data[1]
            b1 == bprev.data[2]
        IN  /\ ~panicked
            /\ buf.data = SubSeq(bprev.data, 3, Len(bprev.data))
            /\ (ret = Err(InvalidPid)) <=> (b0 = 0 /\ b1 = 0)
            /\ ~(b0 = 0 /\ b1 = 0) =>
                  /\ IsOk(ret)
                  /\ PidGet(ret[2]) = 256 * b0 + b1
                  /\ PidGet(ret[2]) \in 1..U16Max

\* 0x00 0x00 followed by one more byte was decoded: InvalidPid, and only
\* the two bytes are gone
C6_Witness ==
    /\ bop = "from_buffer"
    /\ bprev.data = <<0, 0, 255>>
    /\ buf.data = <<255>>
    /\ ret = Err(InvalidPid)

\* C7: encode/decode round trip: to_buffer(p) into a buffer with enough
\* capacity followed by from_buffer yields Ok(p); Pids p1..pk written into
\* an initially empty buffer are returned by from_buffer in the same order,
\* and after k reads the buffer is empty.
C7_RoundTrip ==
    /\ (bop = "to_buffer" /\ ~panicked /\ bprev.data = <<>>) =>
          /\ PidFromBuffer(buf).ret = Ok(barg)
          /\ PidFromBuffer(buf).buf.data = <<>>
    /\ (fresh /\ ~panicked) =>
          /\ Len(reads) <= Len(written)
          /\ \A i \in 1..Len(reads) : reads[i] = Ok(written[i])
          /\ Len(reads) = Len(written) => buf.data = <<>>

\* two different Pids were written into an empty buffer and both read back
C7_Witness ==
    /\ fresh
    /\ ~panicked
    /\ written = <<256, U16Max>>
    /\ Len(reads) = 2
    /\ bop = "from_buffer"
    /\ buf.data = <<>>
(***************************************************************************)
(* Claims about QoS, QosPid and the Error conversions                      *)
(***************************************************************************)
\* C8: QosPid couples the identifier to the QoS level: q.pid() is Some(p)
\* iff q.qos() is not AtMostOnce; pid() returns the carried p for
\* AtLeastOnce(p) and ExactlyOnce(p) and None for AtMostOnce; qos() returns
\* the level of the shape, whatever Pid it carries.
C8_QosPidCoupling ==
    /\ call.fn = "pid" =>
          /\ (call.ret[1] = "Some") <=> (QosPid_qos(call.arg) # "AtMostOnce")
          /\ call.arg[1] = "AtMostOnce" => call.ret = None
          /\ call.arg[1] \in {"AtLeastOnce", "ExactlyOnce"} =>
                call.ret = Some(call.arg[2])
    /\ call.fn = "qos" =>
          /\ call.ret \in QoS
          /\ call.ret = call.arg[1]
          /\ (call.ret # "AtMostOnce") <=> (QosPid_pid(call.arg)[1] = "Some")

\* pid() was taken of ExactlyOnce(65535)
C8_Witness ==
    /\ call.fn = "pid"
    /\ call.arg = <<"ExactlyOnce", U16Max>>
    /\ call.ret = Some(U16Max)

\* C9: QoS byte mapping: from_u8(b) succeeds iff b <= 2, and then
\* to_u8(from_u8(b)) = b; for b > 2 it fails with InvalidQos(b) carrying
\* the byte; from_u8(to_u8(q)) = Ok(q), with to_u8 mapping AtMostOnce,
\* AtLeastOnce, ExactlyOnce to 0, 1, 2.
C9_QosByteMapping ==
    /\ call.fn = "from_u8" =>
          /\ IsOk(call.ret) <=> (call.arg <= 2)
          /\ call.arg <= 2 =>
                /\ call.ret[2] \in QoS
                /\ QoS_to_u8(call.ret[2]) = call.arg
          /\ call.arg > 2 => call.ret = Err(<<"InvalidQos", call.arg>>)
    /\ call.fn = "to_u8" =>
          /\ QoS_from_u8(call.ret) = Ok(call.arg)
          /\ call.arg = "AtMostOnce" => call.ret = 0
          /\ call.arg = "AtLeastOnce" => call.ret = 1
          /\ call.arg = "ExactlyOnce" => call.ret = 2

\* from_u8(3) was refused with the byte in the error
C9_Witness ==
    /\ call.fn = "from_u8"
    /\ call.arg = 3
    /\ call.ret = Err(<<"InvalidQos", 3>>)

\* C10: Error -> I/O error gives kind WriteZero exactly for WriteZero and
\* InvalidData for every other variant, the message being the rendered
\* variant; I/O error -> Error gives WriteZero exactly for kind WriteZero
\* and otherwise IoError(kind, message) with kind and text preserved; so
\* Error -> I/O error -> Error is the identity only on WriteZero, and any
\* other e comes back as IoError(InvalidData, rendering of e).
C10_IoConversions ==
    /\ call.fn = "io_from_error" =>
          /\ (call.ret.kind = "WriteZero") <=> (call.arg = WriteZero)
          /\ call.arg # WriteZero => call.ret.kind = "InvalidData"
          /\ call.ret.msg = ErrorDebug(call.arg)
          /\ call.arg = <<"InvalidQos", 3>> =>
                call.ret.msg = <<"InvalidQos", "(", "3", ")">>
          /\ call.arg = <<"IoError", "Other", <<"\"">>>> =>
                call.ret.msg = <<"IoError", "(", "Other", ", ", "\"", "\\\"", "\"", ")">>
          /\ (Error_from_IoError(call.ret) = call.arg) <=> (call.arg = WriteZero)
          /\ call.arg # WriteZero =>
                Error_from_IoError(call.ret)
                    = <<"IoError", "InvalidData", ErrorDebug(call.arg)>>
    /\ call.fn = "error_from_io" =>
          /\ (call.ret = WriteZero) <=> (call.arg.kind = "WriteZero")
          /\ call.arg.kind # "WriteZero" =>
                call.ret = <<"IoError", call.arg.kind, call.arg.msg>>

\* an IoError(InvalidData, ..) went to an I/O error; coming back it is
\* wrapped once more and is not the value that went in
C10_Witness ==
    /\ call.fn = "io_from_error"
    /\ call.arg = <<"IoError", "InvalidData", <<"eof">>>>
    /\ call.ret.kind = "InvalidData"
    /\ Error_from_IoError(call.ret) # call.arg
====
